---------------------------- MODULE Spec2Model ----------------------------
(***************************************************************************)
(* Model of the flip bot (src/src/App.tsx, src/src/utils.ts): a React      *)
(* component that subscribes to tile updates, admits unowned tiles to a    *)
(* pending queue, drains the queue in chunks through timers, and keeps     *)
(* metrics of the executor's results.                                      *)
(*                                                                         *)
(* React state is modelled by two things: the latest value of a state      *)
(* (every queued update applied, in order) and, for pendingFlips, the      *)
(* value the last render saw (renderedFlips), which is what the closures   *)
(* of that render's effects hold.  Updates made from the update feed and   *)
(* from timers are rendered later, by Render; updates made from the        *)
(* controls are rendered in the same step.                                 *)
(***************************************************************************)
EXTENDS Integers, Sequences, FiniteSets, TLC

VARIABLES
    account,             \* useAccount().account: NoAccount or its address
    client,              \* the ToriiClient has been created
    isBotRunning,
    chunkSize,
    executionDelay,      \* milliseconds
    sampleFactor,        \* tenths: 0..10 stands for 0.0..1.0
    pendingFlips,        \* latest value of the pendingFlips state
    renderedFlips,       \* pendingFlips as of the last render
    drainTimer,          \* the drain effect's setTimeout(.., 0): NoTimer or its closure
    chunkTimers,         \* the scheduled executeFlips(chunk) timeouts, in creation order
    inFlight,            \* account.execute calls that have not settled
    subscribing,         \* client.onEntityUpdated promises that have not resolved
    subscriptions,       \* the subscriptions that deliver updates
    subscriptionRef,     \* subscriptionRef.current: 0 (undefined) or a subscription id
    metrics,
    tilePositions,
    txLogs,
    lastUpdateTimestamp,
    entityUpdateRate,    \* the ring of rate samples
    updateRateInterval,  \* the rate effect's setInterval: the lastUpdateTimestamp of
                         \* its closure and the milliseconds until it runs next
    now,                 \* Date.now(), milliseconds
    nextId,              \* the id of the next subscription
    admitted,            \* history: how many candidates were admitted (their ids)
    handed,              \* history: ids of the candidates passed to account.execute
    dropped,             \* history: ids executeFlips returned on without a call
    completed,           \* history: sums over the settled account.execute calls
    appended,            \* history: every record ever put in metrics.flipHistory
    processed,           \* history: how many updates the handler was called with
    presses,             \* history: how often the controls were used, whether
                         \* the wallet was ever disconnected, and the calls that
                         \* were in flight when the bot was stopped, while it
                         \* stays stopped
    timing,              \* history: milliseconds since the component was mounted,
                         \* at the last run of the rate interval, and its runs
    parsed               \* the last call of parseTileModel: its arguments and result

vars == << account, client, isBotRunning, chunkSize, executionDelay, sampleFactor,
           pendingFlips, renderedFlips, drainTimer, chunkTimers, inFlight,
           subscribing, subscriptions, subscriptionRef, metrics, tilePositions,
           txLogs, lastUpdateTimestamp, now, nextId, admitted, handed, dropped,
           completed, appended, processed, presses, entityUpdateRate,
           updateRateInterval, timing, parsed >>

-----------------------------------------------------------------------------
(* Bounds of the model *)

MaxEvents == 2          \* updates processed in one behaviour
MaxTicks == 1           \* steps of the clock
MaxInputs == 5          \* updates processed and uses of the controls, together
TickMs == 100           \* milliseconds in a step of the clock
MaxQueue == 25          \* candidates in the queue a drain of SpecChunk takes
MaxAggSteps == 3        \* results the aggregator of SpecAgg is given
MaxNibbles == 4         \* hexadecimal digits of the packed values of SpecDecode
MaxCalls == 2           \* calls of parseTileModel in a behaviour of SpecDecode
MaxRateSteps == 4       \* steps of the clock in a behaviour of SpecRate

(* Program constants *)

HistoryCap == 100
TxLogCap == 10
InitChunkSize == 10
InitExecutionDelay == 100
MinChunkSize == 1
MaxChunkSize == 20
MinExecutionDelay == 50
MaxExecutionDelay == 1000
ExecutionDelayStep == 50
RateIntervalMs == 1000
RateKeep == 29
MsPerSecond == 1000
GridWidth == 256


-----------------------------------------------------------------------------
(* Values *)

NoAccount == "none"
SelfAddress == "0x5e1f"
OtherAddress == "0x7e2"
Unowned == "0x0"
NoTimer == [armed |-> FALSE]
Undefined == -1                      \* a field a record does not have
NaN == -2                            \* the number parseInt returns without digits
NoCall == [calls |-> 0]

PowerupNone == 0
PowerupMultiplier == 1
Powerups == {PowerupNone, PowerupMultiplier}

\* SliderChunkSizes of an input without max
SliderChunkSizesWithoutMax == MinChunkSize..(MaxChunkSize + 1)

SliderChunkSizes == MinChunkSize..MaxChunkSize   \* the slider's values
SliderExecutionDelays ==
    { d \in MinExecutionDelay..MaxExecutionDelay :
         (d - MinExecutionDelay) % ExecutionDelayStep = 0 }
SliderSampleFactors == 0..10                     \* tenths: min 0, max 1, step 0.1
ChunkSizes == {MinChunkSize, InitChunkSize}      \* those the model's control sets
ExecutionDelays == {50, InitExecutionDelay}      \* of the slider's 50..1000 step 50
SampleFactors == {0, 10}                         \* of the slider's 0..1 step 0.1
Randoms == {0, 9}                                \* Math.random() in tenths, in [0,1)

Tile(x, y, address, powerup, powerupValue, team) ==
    [x |-> x, y |-> y, address |-> address, powerup |-> powerup,
     powerupValue |-> powerupValue, team |-> team]

\* an update of the feed: entity[TILE_MODEL_TAG] with the packed value and,
\* unless Undefined, the coordinates, and TILE_HASHES.indexOf(hashedKeys)
Event(flipped, x, y, indexOfKey) ==
    [model |-> [flipped |-> flipped, x |-> x, y |-> y], indexOfKey |-> indexOfKey]

\* the updates the feed delivers: the tiles (0,0) and (0,1) unowned, (0,0)
\* flipped by the account with a multiplier of 3, and (0,1) flipped by
\* somebody else
Events ==
    { Event("0x0", 0, 0, 0),
      Event("0x0", Undefined, Undefined, 1),
      Event("0x5e1f1031", 0, 0, 0),
      Event("0x07e20002", 0, 1, 1) }

\* and, for SpecFeed, (0,0) flipped by the account with a multiplier of 7,
\* without a powerup and with a powerup nibble of a
FeedEvents ==
    Events \cup { Event("0x5e1f1072", 0, 0, 0),
                  Event("0x5e1f0001", 0, 0, 0),
                  Event("0x5e1fa2b3", 0, 0, 0) }

-----------------------------------------------------------------------------
(* Array helpers *)

Min(a, b) == IF a < b THEN a ELSE b
Max(a, b) == IF a > b THEN a ELSE b

\* Array.prototype.slice(from, to), 0-based, to exclusive
Slice(s, from, to) == SubSeq(s, from + 1, Min(to, Len(s)))

\* Array.prototype.slice(-n)
SliceLast(s, n) == SubSeq(s, Max(1, Len(s) - n + 1), Len(s))

\* flips.map(() => record)
Repeat(n, r) == [i \in 1..n |-> r]

RECURSIVE Gcd(_, _)
Gcd(a, b) == IF b = 0 THEN a ELSE Gcd(b, a % b)

\* a non-negative fraction in lowest terms
Frac(n, d) == LET g == Gcd(n, d) IN [num |-> n \div g, den |-> d \div g]

Coord(f) == [x |-> f.x, y |-> f.y]


-----------------------------------------------------------------------------
(* The decoder of src/src/utils.ts.  The packed value is the string the feed *)
(* delivers, "0x" and lower-case hexadecimal digits.                         *)

HexDigits == "0123456789abcdef"

\* s[i], 0-based
CharAt(s, i) == SubSeq(s, i + 1, i + 1)

IsHexDigit(c) == \E d \in 0..15 : CharAt(HexDigits, d) = c

DigitValue(c) == CHOOSE d \in 0..15 : CharAt(HexDigits, d) = c

\* String.prototype.substring(start, end): both clamped to 0..length, and
\* swapped when start > end
Substring(s, start, end) ==
    LET a == Max(0, Min(start, Len(s)))
        b == Max(0, Min(end, Len(s)))
    IN  IF a = b THEN "" ELSE SubSeq(s, Min(a, b) + 1, Max(a, b))

\* .replace(/^0+/, '')
RECURSIVE StripLeadingZeros(_)
StripLeadingZeros(s) ==
    IF Len(s) > 0 /\ CharAt(s, 0) = "0"
    THEN StripLeadingZeros(Substring(s, 1, Len(s)))
    ELSE s

\* the value of the hexadecimal digits s starts with, after those of value acc
RECURSIVE ParseDigits(_, _)
ParseDigits(s, acc) ==
    IF Len(s) > 0 /\ IsHexDigit(CharAt(s, 0))
    THEN ParseDigits(Substring(s, 1, Len(s)), 16 * acc + DigitValue(CharAt(s, 0)))
    ELSE acc

\* parseInt(s, 16): an optional 0x, then the digits s starts with; NaN when
\* there is none
ParseInt16(s) ==
    LET digits == IF Substring(s, 0, 2) = "0x" THEN Substring(s, 2, Len(s)) ELSE s
    IN  IF Len(digits) > 0 /\ IsHexDigit(CharAt(digits, 0))
        THEN ParseDigits(digits, 0)
        ELSE NaN

\* a % b of JavaScript for b > 0: the sign of a
Remainder(a, b) == IF a >= 0 THEN a % b ELSE 0 - ((0 - a) % b)

maskAddress(address) ==
    LET trimmed == StripLeadingZeros(Substring(address, 2, Len(address)))
    IN  "0x" \o Substring(trimmed, 0, Len(trimmed) - 4)

\* parseTileModel that decodes "0x0" as it decodes every other packed value
parseTileModelNoSentinel(model, indexOfKey) ==
    LET packedFlipped == model.flipped
        length == Len(packedFlipped)
    IN  Tile(IF model.x # Undefined THEN model.x ELSE indexOfKey \div GridWidth,
             IF model.y # Undefined THEN model.y
             ELSE Remainder(indexOfKey, GridWidth),
             maskAddress(packedFlipped),
             ParseInt16(Substring(packedFlipped, length - 4, length - 3)),
             ParseInt16(Substring(packedFlipped, length - 3, length - 1)),
             ParseInt16(Substring(packedFlipped, length - 1, length)))

\* parseTileModel(model, hashedKeys), with indexOfKey for
\* TILE_HASHES.indexOf(hashedKeys), which is -1 for a key that is not in the table
parseTileModel(model, indexOfKey) ==
    LET packedFlipped == model.flipped
        length == Len(packedFlipped)
        address == IF packedFlipped # "0x0" THEN maskAddress(packedFlipped)
                   ELSE "0x0"
        powerup ==
            IF address # "0x0"
            THEN ParseInt16(Substring(packedFlipped, length - 4, length - 3))
            ELSE PowerupNone
        powerupValue ==
            IF address # "0x0"
            THEN ParseInt16(Substring(packedFlipped, length - 3, length - 1))
            ELSE 0
        team ==
            IF address # "0x0"
            THEN ParseInt16(Substring(packedFlipped, length - 1, length))
            ELSE 0
        x == IF model.x # Undefined THEN model.x ELSE indexOfKey \div GridWidth
        y == IF model.y # Undefined THEN model.y
             ELSE Remainder(indexOfKey, GridWidth)
    IN  Tile(x, y, address, powerup, powerupValue, team)

\* what parseTileModel returns for the updates the feed delivers
EventTiles == { parseTileModel(e.model, e.indexOfKey) : e \in Events }
FeedTiles == { parseTileModel(e.model, e.indexOfKey) : e \in FeedEvents }

-----------------------------------------------------------------------------
(* The pure parts of the component *)

\* the drain's loop: for (i = 0; i < pendingFlips.length; i += chunkSize)
RECURSIVE ChunksFrom(_, _, _)
ChunksFrom(flips, size, i) ==
    IF i < Len(flips)
    THEN << Slice(flips, i, i + size) >> \o ChunksFrom(flips, size, i + size)
    ELSE << >>

\* Chunks with the loop stopped at the last full chunk (i + chunkSize <= length)
ChunksWithoutTail(flips, size) ==
    ChunksFrom(SubSeq(flips, 1, (Len(flips) \div size) * size), size, 0)

Chunks(flips, size) == ChunksFrom(flips, size, 0)

\* ChunkDelay with the same delay for every chunk
ChunkDelaySame(index, delay) == delay

\* the delay of chunk number index (0-based) of a drain
ChunkDelay(index, delay) == index * delay

InitMetrics ==
    [totalFlips |-> 0, successfulFlips |-> 0, failedFlips |-> 0,
     averageResponseTime |-> Frac(0, 1),
     powerups |-> [k \in {PowerupNone, PowerupMultiplier} |->
                      [count |-> 0, values |-> << >>]],
     flipHistory |-> << >>]

HistoryRecord(t, success, powerup, powerupValue) ==
    [timestamp |-> t, success |-> success, powerup |-> powerup,
     powerupValue |-> powerupValue]

\* PushHistory that keeps the first 100 records: .slice(0, 100)
PushHistoryKeepFirst(history, records) == Slice(history \o records, 0, HistoryCap)

\* flipHistory after appending records: [...prev, ...records].slice(-100)
PushHistory(history, records) == SliceLast(history \o records, HistoryCap)

\* MetricsSelfOwned that appends no record to the history
MetricsSelfOwnedNoRecord(prev, tile, t) == prev

\* MetricsSelfOwned that puts the value first
MetricsSelfOwnedPrepend(prev, tile, t) ==
    [prev EXCEPT
        !.flipHistory =
            PushHistory(@, << HistoryRecord(t, TRUE, tile.powerup,
                                            tile.powerupValue) >>),
        !.powerups =
            IF tile.powerup \in Powerups \ {PowerupNone}
            THEN [@ EXCEPT ![tile.powerup] =
                     [count |-> @.count + 1,
                      values |-> << tile.powerupValue >> \o @.values]]
            ELSE @]

\* setMetrics of a tile that carries the account's address
MetricsSelfOwned(prev, tile, t) ==
    LET old == IF tile.powerup \in DOMAIN prev.powerups
               THEN prev.powerups[tile.powerup]
               ELSE [count |-> 0, values |-> << >>]
        powerups ==
            IF tile.powerup # PowerupNone
            THEN [k \in DOMAIN prev.powerups \cup {tile.powerup} |->
                    IF k = tile.powerup
                    THEN [count |-> old.count + 1,
                          values |-> Append(old.values, tile.powerupValue)]
                    ELSE prev.powerups[k]]
            ELSE prev.powerups
    IN  [prev EXCEPT
            !.flipHistory =
                PushHistory(@, << HistoryRecord(t, TRUE, tile.powerup,
                                                tile.powerupValue) >>),
            !.powerups = powerups]

\* (prev.averageResponseTime * prev.totalFlips + elapsed) / (prev.totalFlips + n)
NextAverage(avg, total, n, elapsed) ==
    Frac(avg.num * total + elapsed * avg.den, avg.den * (total + n))

\* setMetrics after account.execute resolved, for a chunk of n flips
MetricsSuccess(prev, n, elapsed, t) ==
    [totalFlips |-> prev.totalFlips + n,
     successfulFlips |-> prev.successfulFlips + n,
     failedFlips |-> prev.failedFlips,
     averageResponseTime |->
         NextAverage(prev.averageResponseTime, prev.totalFlips, n, elapsed),
     powerups |-> prev.powerups,
     flipHistory |->
         PushHistory(prev.flipHistory,
                     Repeat(n, HistoryRecord(t, TRUE, PowerupNone, 0)))]

\* MetricsFailure that leaves totalFlips as it was
MetricsFailureNoTotal(prev, n, t) ==
    [prev EXCEPT
        !.failedFlips = @ + n,
        !.flipHistory =
            PushHistory(@, Repeat(n, HistoryRecord(t, FALSE, Undefined, Undefined)))]

\* MetricsFailure that appends the records of the success path
MetricsFailureAsSuccess(prev, n, t) ==
    [prev EXCEPT
        !.totalFlips = @ + n,
        !.failedFlips = @ + n,
        !.flipHistory =
            PushHistory(@, Repeat(n, HistoryRecord(t, TRUE, PowerupNone, 0)))]

\* setMetrics after account.execute threw, for a chunk of n flips
MetricsFailure(prev, n, t) ==
    [prev EXCEPT
        !.totalFlips = @ + n,
        !.failedFlips = @ + n,
        !.flipHistory =
            PushHistory(@, Repeat(n, HistoryRecord(t, FALSE, Undefined, Undefined)))]

\* setTilePositions of an admitted tile
PositionsAdmit(prev, tile) ==
    [prev EXCEPT !.pending = Append(@, [x |-> tile.x, y |-> tile.y])]

\* PositionsFlipped that leaves both views as they were
PositionsFlippedNone(prev, flips) == prev

\* setTilePositions after account.execute resolved
PositionsFlipped(prev, flips) ==
    LET Keep(p) == ~ \E i \in 1..Len(flips) : flips[i].x = p.x /\ flips[i].y = p.y
    IN  [pending |-> SelectSeq(prev.pending, Keep),
         flipped |-> prev.flipped \o [i \in 1..Len(flips) |-> Coord(flips[i])]]

\* Math.random() < sampleFactor
Sampled(random, factor) == random < factor


-----------------------------------------------------------------------------
(* The effects, run by the render that follows a state change *)

\* useEffect(.., [pendingFlips, account, chunkSize, executionDelay]): when a
\* dependency changed, the cleanup clears the timer and the effect sets a new
\* one, unless the queue this render sees is empty
DrainEffect(flips, acct, size, delay) ==
    IF flips = renderedFlips /\ acct = account /\ size = chunkSize
       /\ delay = executionDelay
    THEN drainTimer
    ELSE IF Len(flips) = 0
         THEN NoTimer
         ELSE [armed |-> TRUE, flips |-> flips, account |-> acct,
               chunkSize |-> size, executionDelay |-> delay]

\* the cleanup of the subscription effect: subscriptionRef.current?.cancel()
CancelRef(subs) == { s \in subs : s.id # subscriptionRef }

\* useEffect(.., [client, isBotRunning]): the cleanup of the previous run (a run
\* without a client returned no cleanup), then a new onEntityUpdated call whose
\* handler is the handleEntityUpdated of this render
SubscriptionEffect(newClient, running, factor, acct) ==
    /\ subscriptions' =
          IF newClient = client /\ running = isBotRunning THEN subscriptions
          ELSE IF client THEN CancelRef(subscriptions)
          ELSE subscriptions
    /\ IF (newClient # client \/ running # isBotRunning) /\ newClient /\ running
       THEN /\ subscribing' = subscribing \cup
                  {[id |-> nextId, sampleFactor |-> factor, account |-> acct]}
            /\ nextId' = nextId + 1
       ELSE UNCHANGED << subscribing, nextId >>

\* time passing for a timer that runs in wait milliseconds
Elapse(timer, ms) == [timer EXCEPT !.wait = Max(0, @ - ms)]

\* PushRate that keeps every sample
PushRateKeepAll(ring, sample) == Append(ring, sample)

\* setEntityUpdateRate(prev => [...prev.slice(-29), sample])
PushRate(ring, sample) == Append(SliceLast(ring, RateKeep), sample)

\* useEffect(.., [lastUpdateTimestamp]) in the render after
\* setLastUpdateTimestamp(ts): when the value changed, the cleanup clears the
\* interval and the effect sets a new one, whose callback holds ts
RateEffect(ts) ==
    IF ts = lastUpdateTimestamp THEN updateRateInterval
    ELSE [lastUpdateTimestamp |-> ts, wait |-> RateIntervalMs]

\* a render: every effect whose dependencies changed runs again
Render(newClient, acct, running, size, delay, factor) ==
    /\ renderedFlips' = pendingFlips
    /\ drainTimer' = DrainEffect(pendingFlips, acct, size, delay)
    /\ SubscriptionEffect(newClient, running, factor, acct)

-----------------------------------------------------------------------------
(* The state after the component is mounted *)

Init ==
    /\ account = NoAccount
    /\ client = FALSE
    /\ isBotRunning = FALSE
    /\ chunkSize = InitChunkSize
    /\ executionDelay = InitExecutionDelay
    /\ sampleFactor = 10
    /\ pendingFlips = << >>
    /\ renderedFlips = << >>
    /\ drainTimer = NoTimer
    /\ chunkTimers = << >>
    /\ inFlight = {}
    /\ subscribing = {}
    /\ subscriptions = {}
    /\ subscriptionRef = 0
    /\ metrics = InitMetrics
    /\ tilePositions = [pending |-> << >>, flipped |-> << >>]
    /\ txLogs = << >>
    /\ lastUpdateTimestamp = 0
    /\ now = 0
    /\ nextId = 1
    /\ admitted = 0
    /\ handed = {}
    /\ dropped = {}
    /\ completed = [calls |-> 0, success |-> 0, failure |-> 0, failed |-> 0,
                    elapsed |-> 0]
    /\ appended = << >>
    /\ processed = 0
    /\ presses = [count |-> 0, disconnected |-> FALSE, stopped |-> {}]
    /\ entityUpdateRate = << >>
    /\ updateRateInterval = [lastUpdateTimestamp |-> 0, wait |-> RateIntervalMs]
    /\ timing = [uptime |-> 0, ticked |-> 0, ticks |-> 0]
    /\ parsed = NoCall

monitor == << entityUpdateRate, updateRateInterval, timing >>
ghosts == << admitted, handed, dropped, completed, appended, processed >>
pipeline == << pendingFlips, chunkTimers, inFlight, metrics, tilePositions, txLogs,
               lastUpdateTimestamp >>
config == << chunkSize, executionDelay, sampleFactor >>

-----------------------------------------------------------------------------
(* The environment: the client, the wallet, the clock *)

\* createClient(..).then(client => setClient(client))
ClientReady ==
    /\ ~client
    /\ client' = TRUE
    /\ Render(TRUE, account, isBotRunning, chunkSize, executionDelay, sampleFactor)
    /\ UNCHANGED << monitor, parsed, account, isBotRunning, config, pipeline, subscriptionRef, now,
                    ghosts, presses >>

\* the Connect button: connect({ connector })
Connect ==
    /\ account = NoAccount
    /\ presses.count + processed < MaxInputs
    /\ account' = SelfAddress
    /\ presses' = [presses EXCEPT !.count = @ + 1]
    /\ Render(client, SelfAddress, isBotRunning, chunkSize, executionDelay,
              sampleFactor)
    /\ UNCHANGED << monitor, parsed, client, isBotRunning, config, pipeline,
                    subscriptionRef, now, ghosts >>

\* the wallet disconnects: useAccount() returns no account
Disconnect ==
    /\ account # NoAccount
    /\ presses.count + processed < MaxInputs
    /\ account' = NoAccount
    /\ presses' = [presses EXCEPT !.count = @ + 1, !.disconnected = TRUE]
    /\ Render(client, NoAccount, isBotRunning, chunkSize, executionDelay,
              sampleFactor)
    /\ UNCHANGED << monitor, parsed, client, isBotRunning, config, pipeline,
                    subscriptionRef, now, ghosts >>

Tick ==
    /\ now < MaxTicks * TickMs
    /\ now' = now + TickMs
    /\ updateRateInterval' = Elapse(updateRateInterval, TickMs)
    /\ timing' = [timing EXCEPT !.uptime = @ + TickMs]
    /\ UNCHANGED << entityUpdateRate, parsed, account, client, isBotRunning, config, pendingFlips,
                    renderedFlips, drainTimer, chunkTimers, inFlight, subscribing,
                    subscriptions, subscriptionRef, metrics, tilePositions, txLogs,
                    lastUpdateTimestamp, nextId, ghosts, presses >>

-----------------------------------------------------------------------------
(* The controls, shown while an account is connected *)

\* onClick={() => setIsBotRunning(!isBotRunning)}
ToggleBot ==
    /\ account # NoAccount
    /\ presses.count + processed < MaxInputs
    /\ isBotRunning' = ~isBotRunning
    /\ presses' = [presses EXCEPT
                      !.count = @ + 1,
                      !.stopped = IF isBotRunning THEN inFlight ELSE {}]
    /\ Render(client, account, ~isBotRunning, chunkSize, executionDelay,
              sampleFactor)
    /\ UNCHANGED << monitor, parsed, account, client, config, pipeline,
                    subscriptionRef, now, ghosts >>

\* onChange={(e) => setChunkSize(Number(e.target.value))}
SetChunkSize(size) ==
    /\ account # NoAccount
    /\ presses.count + processed < MaxInputs
    /\ size # chunkSize
    /\ chunkSize' = size
    /\ presses' = [presses EXCEPT !.count = @ + 1]
    /\ Render(client, account, isBotRunning, size, executionDelay, sampleFactor)
    /\ UNCHANGED << monitor, parsed, account, client, isBotRunning, executionDelay, sampleFactor,
                    pipeline, subscriptionRef, now, ghosts >>

\* onChange={(e) => setExecutionDelay(Number(e.target.value))}
SetExecutionDelay(delay) ==
    /\ account # NoAccount
    /\ presses.count + processed < MaxInputs
    /\ delay # executionDelay
    /\ executionDelay' = delay
    /\ presses' = [presses EXCEPT !.count = @ + 1]
    /\ Render(client, account, isBotRunning, chunkSize, delay, sampleFactor)
    /\ UNCHANGED << monitor, parsed, account, client, isBotRunning, chunkSize, sampleFactor,
                    pipeline, subscriptionRef, now, ghosts >>

\* onChange={(e) => setSampleFactor(Number(e.target.value))}
SetSampleFactor(factor) ==
    /\ account # NoAccount
    /\ presses.count + processed < MaxInputs
    /\ factor # sampleFactor
    /\ sampleFactor' = factor
    /\ presses' = [presses EXCEPT !.count = @ + 1]
    /\ Render(client, account, isBotRunning, chunkSize, executionDelay, factor)
    /\ UNCHANGED << monitor, parsed, account, client, isBotRunning, chunkSize, executionDelay,
                    pipeline, subscriptionRef, now, ghosts >>


-----------------------------------------------------------------------------
(* The update feed *)

\* client.onEntityUpdated(..).then(subscription => subscriptionRef.current = ..)
SubscribeResolve(p) ==
    /\ p \in subscribing
    /\ subscribing' = subscribing \ {p}
    /\ subscriptions' = subscriptions \cup {p}
    /\ subscriptionRef' = p.id
    /\ UNCHANGED << monitor, parsed, account, client, isBotRunning, config, pipeline, renderedFlips,
                    drainTimer, now, nextId, ghosts, presses >>

\* handleEntityUpdated of the render that subscribed s, called with an entity
\* that holds no tile model: if (!entity[TILE_MODEL_TAG]) return
EntityWithoutTile(s) ==
    /\ s \in subscriptions
    /\ processed < MaxEvents /\ presses.count + processed < MaxInputs
    /\ lastUpdateTimestamp' = now
    /\ updateRateInterval' = RateEffect(now)
    /\ processed' = processed + 1
    /\ UNCHANGED << entityUpdateRate, timing, parsed, account, client, isBotRunning, config, pendingFlips,
                    renderedFlips, drainTimer, chunkTimers, inFlight, subscribing,
                    subscriptions, subscriptionRef, metrics, tilePositions, txLogs,
                    now, nextId, admitted, handed, dropped, completed, appended,
                    presses >>

\* handleEntityUpdated of the render that subscribed s, called with a tile
HandleEntityUpdated(s, tile, random) ==
    LET self == tile.address = s.account
        admit == tile.address = Unowned /\ Sampled(random, s.sampleFactor)
    IN  /\ s \in subscriptions
        /\ processed < MaxEvents /\ presses.count + processed < MaxInputs
        /\ lastUpdateTimestamp' = now
        /\ updateRateInterval' = RateEffect(now)
        /\ metrics' = IF self THEN MetricsSelfOwned(metrics, tile, now) ELSE metrics
        /\ appended' = IF self
                       THEN Append(appended, HistoryRecord(now, TRUE, tile.powerup,
                                                           tile.powerupValue))
                       ELSE appended
        /\ IF admit
           THEN /\ pendingFlips' =
                      Append(pendingFlips,
                             [x |-> tile.x, y |-> tile.y, id |-> admitted + 1])
                /\ tilePositions' = PositionsAdmit(tilePositions, tile)
                /\ admitted' = admitted + 1
           ELSE UNCHANGED << pendingFlips, tilePositions, admitted >>
        /\ processed' = processed + 1
        /\ UNCHANGED << entityUpdateRate, timing, parsed, account, client, isBotRunning, config, renderedFlips,
                        drainTimer, chunkTimers, inFlight, subscribing,
                        subscriptions, subscriptionRef, txLogs, now, nextId,
                        handed, dropped, completed, presses >>

-----------------------------------------------------------------------------
(* The drain *)

\* the render React schedules after setPendingFlips was called from the feed
\* or from the drain timer
Rerender ==
    /\ pendingFlips # renderedFlips
    /\ Render(client, account, isBotRunning, chunkSize, executionDelay, sampleFactor)
    /\ UNCHANGED << monitor, parsed, account, client, isBotRunning, config, pipeline, subscriptionRef,
                    now, ghosts, presses >>

\* the setTimeout of chunk number i (1-based) of the chunks the drain timer
\* made: setTimeout(() => executeFlips(chunk), index * executionDelay)
ChunkTimer(timer, chunks, i) ==
    [flips |-> chunks[i],
     delay |-> ChunkDelay(i - 1, timer.executionDelay),
     due |-> now + ChunkDelay(i - 1, timer.executionDelay),
     account |-> timer.account,
     drain |-> timer.flips[1].id, index |-> i - 1,
     executionDelay |-> timer.executionDelay, drained |-> now]

\* the callback of the drain effect's setTimeout(.., 0), with the pendingFlips,
\* chunkSize, executionDelay and executeFlips of the render that set it
DrainTimerFire ==
    LET chunks == Chunks(drainTimer.flips, drainTimer.chunkSize)
    IN  /\ drainTimer.armed
        /\ chunkTimers' = chunkTimers \o
              [i \in 1..Len(chunks) |-> ChunkTimer(drainTimer, chunks, i)]
        /\ pendingFlips' = << >>
        /\ drainTimer' = NoTimer
        /\ UNCHANGED << monitor, parsed, account, client, isBotRunning, config, renderedFlips,
                        inFlight, subscribing, subscriptions, subscriptionRef,
                        metrics, tilePositions, txLogs, lastUpdateTimestamp, now,
                        nextId, ghosts, presses >>

\* timers run no earlier than their delay, and a timer set earlier with a
\* delay no longer than this one's runs first
TimerMayRun(i) ==
    /\ i \in 1..Len(chunkTimers)
    /\ now >= chunkTimers[i].due
    /\ \A j \in 1..(i - 1) : chunkTimers[j].delay > chunkTimers[i].delay

\* RemoveAt that removes nothing
RemoveNone(s, i) == s

RemoveAt(s, i) == SubSeq(s, 1, i - 1) \o SubSeq(s, i + 1, Len(s))

Ids(flips) == { flips[i].id : i \in 1..Len(flips) }

\* the callback of a chunk's setTimeout: executeFlips(chunk) up to the await
ChunkTimerFire(i) ==
    LET t == chunkTimers[i]
    IN  /\ TimerMayRun(i)
        /\ chunkTimers' = RemoveAt(chunkTimers, i)
        /\ IF t.account = NoAccount \/ Len(t.flips) = 0
           THEN /\ dropped' = dropped \cup Ids(t.flips)
                /\ UNCHANGED << inFlight, handed >>
           ELSE /\ inFlight' = inFlight \cup
                      {[flips |-> t.flips, startTime |-> now, drain |-> t.drain,
                        index |-> t.index, executionDelay |-> t.executionDelay,
                        drained |-> t.drained]}
                /\ handed' = handed \cup Ids(t.flips)
                /\ UNCHANGED dropped
        /\ UNCHANGED << monitor, parsed, account, client, isBotRunning, config, pendingFlips,
                        renderedFlips, drainTimer, subscribing, subscriptions,
                        subscriptionRef, metrics, tilePositions, txLogs,
                        lastUpdateTimestamp, now, nextId, admitted, completed,
                        appended, processed, presses >>

\* account.execute resolved: the rest of executeFlips' try block
ExecuteSucceed(call) ==
    /\ call \in inFlight
    /\ inFlight' = inFlight \ {call}
    /\ txLogs' = SliceLast(Append(txLogs, [hash |-> call.flips[1].id,
                                           timestamp |-> now]), TxLogCap)
    /\ metrics' = MetricsSuccess(metrics, Len(call.flips), now - call.startTime, now)
    /\ tilePositions' = PositionsFlipped(tilePositions, call.flips)
    /\ completed' = [completed EXCEPT
                        !.calls = @ + 1,
                        !.success = @ + Len(call.flips),
                        !.elapsed = @ + Len(call.flips) * (now - call.startTime)]
    /\ appended' = appended \o
          Repeat(Len(call.flips), HistoryRecord(now, TRUE, PowerupNone, 0))
    /\ UNCHANGED << monitor, parsed, account, client, isBotRunning, config, pendingFlips,
                    renderedFlips, drainTimer, chunkTimers, subscribing,
                    subscriptions, subscriptionRef, lastUpdateTimestamp, now,
                    nextId, admitted, handed, dropped, processed, presses >>

\* account.execute threw: executeFlips' catch block
ExecuteFail(call) ==
    /\ call \in inFlight
    /\ inFlight' = inFlight \ {call}
    /\ metrics' = MetricsFailure(metrics, Len(call.flips), now)
    /\ completed' = [completed EXCEPT
                        !.calls = @ + 1,
                        !.failed = @ + 1,
                        !.failure = @ + Len(call.flips)]
    /\ appended' = appended \o
          Repeat(Len(call.flips), HistoryRecord(now, FALSE, Undefined, Undefined))
    /\ UNCHANGED << monitor, parsed, account, client, isBotRunning, config, pendingFlips,
                    renderedFlips, drainTimer, chunkTimers, subscribing,
                    subscriptions, subscriptionRef, tilePositions, txLogs,
                    lastUpdateTimestamp, now, nextId, admitted, handed, dropped,
                    processed, presses >>

-----------------------------------------------------------------------------

Next ==
    \/ ClientReady
    \/ Connect
    \/ Disconnect
    \/ Tick
    \/ ToggleBot
    \/ \E size \in ChunkSizes : SetChunkSize(size)
    \/ \E delay \in ExecutionDelays : SetExecutionDelay(delay)
    \/ \E factor \in SampleFactors : SetSampleFactor(factor)
    \/ \E p \in subscribing : SubscribeResolve(p)
    \/ \E s \in subscriptions : EntityWithoutTile(s)
    \/ \E s \in subscriptions, tile \in EventTiles, random \in Randoms :
          HandleEntityUpdated(s, tile, random)
    \/ Rerender
    \/ DrainTimerFire
    \/ \E i \in 1..Len(chunkTimers) : ChunkTimerFire(i)
    \/ \E call \in inFlight : ExecuteSucceed(call)
    \/ \E call \in inFlight : ExecuteFail(call)

Spec == Init /\ [][Next]_vars

-----------------------------------------------------------------------------
(* Claims about the pipeline, checked under Spec *)

NewTimers == SubSeq(chunkTimers', Len(chunkTimers) + 1, Len(chunkTimers'))

\* how often candidate id occurs in the queue and in the chunks made so far
Occurrences(id) ==
    Cardinality({ i \in 1..Len(pendingFlips) : pendingFlips[i].id = id })
    + Cardinality({ << i, j >> \in (1..Len(chunkTimers)) \X (1..MaxEvents + 1) :
                      /\ j <= Len(chunkTimers[i].flips)
                      /\ chunkTimers[i].flips[j].id = id })
    + (IF id \in handed THEN 1 ELSE 0)

\* C2: as long as the account stays connected, every candidate admitted to the
\* pending queue is in exactly one place: still queued, in exactly one chunk
\* that is scheduled, or in exactly one chunk that was handed to the executor;
\* none is lost and none is dispatched twice
C2_EachCandidateInExactlyOneChunk ==
    ~presses.disconnected => \A id \in 1..admitted : Occurrences(id) = 1

\* C3: while the bot is stopped no chunk is submitted to the executor
C3_NoSubmissionAfterStop ==
    [][~isBotRunning => handed' = handed]_vars

\* C4: while the bot is stopped the handler is called with no update
C4_NoUpdateAfterStop ==
    [][~isBotRunning => processed' = processed]_vars

\* a step in which the handler processes an update of an unowned tile
UnownedUpdate ==
    \E s \in subscriptions, tile \in EventTiles, random \in Randoms :
       tile.address = Unowned /\ HandleEntityUpdated(s, tile, random)

\* C10: while sampleFactor is 0 no update is admitted to the pending queue, and
\* while it is 1 every unowned update that is processed is admitted
C10_SampleFactorBoundaries ==
    [][/\ sampleFactor = 0 => admitted' = admitted
       /\ (sampleFactor = 10 /\ UnownedUpdate) => admitted' = admitted + 1]_vars

\* C5 as stated: every chunk is submitted exactly index * executionDelay
\* milliseconds after its drain
C5_SubmittedExactlyAtDelay ==
    \A call \in inFlight :
        call.startTime = call.drained + call.index * call.executionDelay

\* a step that submits chunk number call.index of a drain while a chunk of the
\* same drain with a smaller index is still scheduled
OutOfOrder ==
    \E call \in inFlight' \ inFlight :
        \E i \in 1..Len(chunkTimers') :
            /\ chunkTimers'[i].drain = call.drain
            /\ chunkTimers'[i].index < call.index

\* C5, amended: a chunk is submitted no earlier than index * executionDelay
\* milliseconds after its drain, the chunks of a drain are submitted in
\* increasing index order, and a drain schedules chunk i with the delay
\* i * executionDelay whatever happens to the other chunks
C5_SubmittedNoEarlierThanDelay ==
    /\ [](\A call \in inFlight :
            call.startTime >= call.drained + call.index * call.executionDelay)
    /\ [][~OutOfOrder]_vars
    /\ [][\A i \in 1..Len(NewTimers) :
            NewTimers[i].due = now + (i - 1) * drainTimer.executionDelay]_vars

\* C5 witness: chunk i + 1 of a drain was submitted while the call of chunk i
\* has not settled
C5_Witness ==
    \E c1 \in inFlight, c2 \in inFlight :
        /\ c1.drain = c2.drain
        /\ c2.index = c1.index + 1
        /\ c2.startTime >= c2.drained + c2.executionDelay

\* C7: the three counters are the sums of the sizes of the settled chunks, and
\* a step that processes an update changes none of them
C7_CountersAreSums ==
    /\ [](/\ metrics.totalFlips = completed.success + completed.failure
          /\ metrics.successfulFlips = completed.success
          /\ metrics.failedFlips = completed.failure
          /\ metrics.totalFlips = metrics.successfulFlips + metrics.failedFlips)
    /\ [][processed' # processed =>
            /\ metrics'.totalFlips = metrics.totalFlips
            /\ metrics'.successfulFlips = metrics.successfulFlips
            /\ metrics'.failedFlips = metrics.failedFlips]_vars

\* C7 witness: updates were processed, a chunk succeeded and a chunk failed
C7_Witness ==
    /\ completed.success > 0
    /\ completed.failure > 0
    /\ processed > 1

\* the chunk whose executor call fails in this step
FailedCalls == IF completed'.failed > completed.failed THEN inFlight \ inFlight' ELSE {}

\* C8: a failed executor call leaves the average, the success counter, the
\* powerup statistics, the pending queue and both position views as they were,
\* appends one success = false record per item of the chunk, and schedules and
\* submits nothing
C8_FailureLeavesStateAlone ==
    [][\A call \in FailedCalls :
         LET n == Len(call.flips)
             h == metrics'.flipHistory
         IN  /\ metrics'.averageResponseTime = metrics.averageResponseTime
             /\ metrics'.successfulFlips = metrics.successfulFlips
             /\ metrics'.powerups = metrics.powerups
             /\ pendingFlips' = pendingFlips
             /\ tilePositions' = tilePositions
             /\ Len(h) = Min(HistoryCap, Len(metrics.flipHistory) + n)
             /\ \A i \in 1..Len(h) :
                   IF i > Len(h) - n
                   THEN ~h[i].success
                   ELSE h[i] = metrics.flipHistory[Len(metrics.flipHistory) + n
                                                   - Len(h) + i]
             /\ chunkTimers' = chunkTimers
             /\ drainTimer' = drainTimer
             /\ inFlight' = inFlight \ {call}
             /\ handed' = handed]_vars

\* C8 witness: a call failed whose chunk's coordinates are in the pending view
\* while another chunk has been flipped
C8_Witness ==
    /\ completed.failed > 0
    /\ Len(tilePositions.pending) > 0
    /\ Len(tilePositions.flipped) > 0

SucceededCalls ==
    IF completed'.calls > completed.calls /\ completed'.failed = completed.failed
    THEN inFlight \ inFlight' ELSE {}

\* C18: a successful executor call appends its chunk's coordinates to the
\* flipped view and takes one entry per item of the chunk out of the pending
\* view, so that the entries of the candidates that have not completed stay
C18_SuccessMovesChunkOnly ==
    [][\A call \in SucceededCalls :
         /\ tilePositions'.flipped = tilePositions.flipped
               \o [i \in 1..Len(call.flips) |-> Coord(call.flips[i])]
         /\ Len(tilePositions'.pending)
               = Len(tilePositions.pending) - Len(call.flips)]_vars

-----------------------------------------------------------------------------
(* The drain of a queue of any length with any chunk size: SpecChunk starts   *)
(* with the bot running, n candidates admitted and rendered, the slider at   *)
(* any of its values, and the drain timer set.                               *)

Queue(n) == [i \in 1..n |-> [x |-> 0, y |-> i % 2, id |-> i]]

Running(flips, size) ==
    /\ account = SelfAddress
    /\ client = TRUE
    /\ isBotRunning = TRUE
    /\ chunkSize = size
    /\ executionDelay = InitExecutionDelay
    /\ sampleFactor = 10
    /\ pendingFlips = flips
    /\ renderedFlips = flips
    /\ drainTimer = IF Len(flips) = 0 THEN NoTimer
                    ELSE [armed |-> TRUE, flips |-> flips, account |-> SelfAddress,
                          chunkSize |-> size,
                          executionDelay |-> InitExecutionDelay]
    /\ chunkTimers = << >>
    /\ inFlight = {}
    /\ subscribing = {}
    /\ subscriptions = {[id |-> 1, sampleFactor |-> 10, account |-> SelfAddress]}
    /\ subscriptionRef = 1
    /\ tilePositions = [pending |-> [i \in 1..Len(flips) |-> Coord(flips[i])],
                        flipped |-> << >>]
    /\ txLogs = << >>
    /\ lastUpdateTimestamp = 0
    /\ nextId = 2
    /\ admitted = Len(flips)
    /\ handed = {}
    /\ dropped = {}
    /\ completed = [calls |-> 0, success |-> 0, failure |-> 0, failed |-> 0,
                    elapsed |-> 0]
    /\ presses = [count |-> 2, disconnected |-> FALSE, stopped |-> {}]
    /\ parsed = NoCall

InitChunk ==
    \E n \in 1..MaxQueue, size \in SliderChunkSizes :
        /\ Running(Queue(n), size)
        /\ metrics = InitMetrics
        /\ appended = << >>
        /\ processed = n
        /\ now = 0
        /\ entityUpdateRate = << >>
        /\ updateRateInterval = [lastUpdateTimestamp |-> 0, wait |-> RateIntervalMs]
        /\ timing = [uptime |-> 0, ticked |-> 0, ticks |-> 0]

NextChunk ==
    \/ DrainTimerFire
    \/ \E i \in 1..Len(chunkTimers) : ChunkTimerFire(i)
    \/ Tick
    \/ \E call \in inFlight : ExecuteSucceed(call)
    \/ \E call \in inFlight : ExecuteFail(call)

SpecChunk == InitChunk /\ [][NextChunk]_vars

\* a step of the drain timer's callback
DrainStep ==
    drainTimer.armed /\ ~drainTimer'.armed /\ renderedFlips' = renderedFlips

RECURSIVE Flatten(_)
Flatten(timers) ==
    IF Len(timers) = 0 THEN << >>
    ELSE Head(timers).flips \o Flatten(Tail(timers))

\* C1: a drain of n candidates with chunk size k makes ceil(n / k) chunks of 1
\* to k candidates each, which concatenated in dispatch order are the drained
\* queue
C1_DrainChunks ==
    [][DrainStep =>
         LET n == Len(drainTimer.flips)
             k == drainTimer.chunkSize
         IN  /\ Len(NewTimers) = (n + k - 1) \div k
             /\ \A i \in 1..Len(NewTimers) :
                   /\ Len(NewTimers[i].flips) \in 1..k
                   /\ NewTimers[i].index = i - 1
             /\ Flatten(NewTimers) = drainTimer.flips]_vars

\* C1 witness: 25 candidates drained with chunk size 10 into chunks of 10, 10
\* and 5
C1_Witness ==
    /\ Len(chunkTimers) = 3
    /\ admitted = 25
    /\ Len(chunkTimers[1].flips) = 10
    /\ Len(chunkTimers[2].flips) = 10
    /\ Len(chunkTimers[3].flips) = 5

-----------------------------------------------------------------------------
(* The aggregator on results of any size and duration: SpecAgg starts with   *)
(* the bot running and a history of self-owned updates, and applies the      *)
(* three updates of metrics, a millisecond apart.                            *)

AggStart == 10 * TickMs
AggSizes == {1, 3, MaxChunkSize}
AggElapsed == {0, 50, 120}
AggTiles ==
    { Tile(0, 0, SelfAddress, PowerupNone, 0, 1),
      Tile(0, 0, SelfAddress, PowerupMultiplier, 3, 1) }
AggPrefills == {0, HistoryCap - 2, HistoryCap}

InitAgg ==
    \E h \in AggPrefills :
        /\ Running(<< >>, InitChunkSize)
        /\ metrics = [InitMetrics EXCEPT
                         !.flipHistory =
                             Repeat(h, HistoryRecord(0, TRUE, PowerupNone, 0))]
        /\ appended = Repeat(h, HistoryRecord(0, TRUE, PowerupNone, 0))
        /\ processed = h
        /\ now = AggStart
        /\ entityUpdateRate = << >>
        /\ updateRateInterval = [lastUpdateTimestamp |-> 0, wait |-> RateIntervalMs]
        /\ timing = [uptime |-> 0, ticked |-> 0, ticks |-> 0]

aggFrame == << account, client, isBotRunning, config, pendingFlips, renderedFlips,
               drainTimer, chunkTimers, inFlight, subscribing, subscriptions,
               subscriptionRef, tilePositions, txLogs, nextId, admitted, handed,
               dropped, presses >>

\* the setMetrics of handleEntityUpdated for a self-owned tile
AggSelfOwned(tile) ==
    /\ now < AggStart + MaxAggSteps
    /\ now' = now + 1
    /\ metrics' = MetricsSelfOwned(metrics, tile, now)
    /\ appended' = Append(appended, HistoryRecord(now, TRUE, tile.powerup,
                                                  tile.powerupValue))
    /\ processed' = processed + 1
    /\ lastUpdateTimestamp' = now
    /\ updateRateInterval' = RateEffect(now)
    /\ UNCHANGED << entityUpdateRate, timing, parsed, aggFrame, completed >>

\* the setMetrics of executeFlips after a call of n flips resolved
AggSuccess(n, elapsed) ==
    /\ now < AggStart + MaxAggSteps
    /\ now' = now + 1
    /\ metrics' = MetricsSuccess(metrics, n, elapsed, now)
    /\ appended' = appended \o Repeat(n, HistoryRecord(now, TRUE, PowerupNone, 0))
    /\ completed' = [completed EXCEPT
                        !.calls = @ + 1,
                        !.success = @ + n,
                        !.elapsed = @ + n * elapsed]
    /\ UNCHANGED << monitor, parsed, aggFrame, processed, lastUpdateTimestamp >>

\* the setMetrics of executeFlips after a call of n flips threw
AggFailure(n) ==
    /\ now < AggStart + MaxAggSteps
    /\ now' = now + 1
    /\ metrics' = MetricsFailure(metrics, n, now)
    /\ appended' = appended \o
          Repeat(n, HistoryRecord(now, FALSE, Undefined, Undefined))
    /\ completed' = [completed EXCEPT
                        !.calls = @ + 1,
                        !.failed = @ + 1,
                        !.failure = @ + n]
    /\ UNCHANGED << monitor, parsed, aggFrame, processed, lastUpdateTimestamp >>

NextAgg ==
    \/ \E tile \in AggTiles : AggSelfOwned(tile)
    \/ \E n \in AggSizes, elapsed \in AggElapsed : AggSuccess(n, elapsed)
    \/ \E n \in AggSizes : AggFailure(n)

SpecAgg == InitAgg /\ [][NextAgg]_vars

\* C6: after successful chunks only, averageResponseTime is the mean of the
\* elapsed times of the items, each item counted with its chunk's elapsed time
C6_AverageIsMeanOfItems ==
    (completed.success > 0 /\ completed.failure = 0) =>
        metrics.averageResponseTime.num * completed.success
            = metrics.averageResponseTime.den * completed.elapsed

\* C9: the history holds the last min(100, appended) records that were
\* appended, in the order they were appended
C9_HistoryIsLastHundred ==
    LET h == metrics.flipHistory
    IN  /\ Len(h) <= HistoryCap
        /\ Len(h) = Min(HistoryCap, Len(appended))
        /\ \A i \in 1..Len(h) : h[i] = appended[Len(appended) - Len(h) + i]

\* C9 witness: more than 100 records were appended, the last ones by a chunk
\* of several items that evicted several records at once
C9_Witness ==
    /\ Len(appended) > HistoryCap + 2
    /\ completed.calls > 0
    /\ metrics.flipHistory[HistoryCap].timestamp
          = metrics.flipHistory[HistoryCap - 1].timestamp
    /\ metrics.flipHistory[1].timestamp = 0

-----------------------------------------------------------------------------
(* Claims about the classification of updates, checked under Spec *)

\* a step in which the handler processes an update that decodes to tile
Processes(tile) ==
    \E s \in subscriptions, random \in Randoms : HandleEntityUpdated(s, tile, random)

\* C11: as long as the account stays connected, an update of a tile that
\* carries the account's address appends one success record to the history and leaves the
\* pending queue and both position views alone; an update of an unowned tile
\* leaves the metrics alone and either appends its coordinates to the pending
\* queue and to the pending view or changes neither; an update of any other
\* tile leaves the pending queue, the metrics and both position views alone
C11_ThreeWayClassification ==
    [][~presses.disconnected =>
         \A tile \in EventTiles :
            Processes(tile) =>
               IF tile.address = account
               THEN /\ tile.address # Unowned
                    /\ Len(metrics'.flipHistory) = Len(metrics.flipHistory) + 1
                    /\ SubSeq(metrics'.flipHistory, 1, Len(metrics.flipHistory))
                          = metrics.flipHistory
                    /\ metrics'.flipHistory[Len(metrics'.flipHistory)].success
                    /\ pendingFlips' = pendingFlips
                    /\ tilePositions' = tilePositions
               ELSE IF tile.address = Unowned
               THEN /\ metrics' = metrics
                    /\ tilePositions'.flipped = tilePositions.flipped
                    /\ \/ /\ pendingFlips' = pendingFlips
                          /\ tilePositions' = tilePositions
                       \/ /\ Len(pendingFlips') = Len(pendingFlips) + 1
                          /\ SubSeq(pendingFlips', 1, Len(pendingFlips)) = pendingFlips
                          /\ Coord(pendingFlips'[Len(pendingFlips')]) = Coord(tile)
                          /\ tilePositions'.pending
                                = Append(tilePositions.pending, Coord(tile))
               ELSE /\ pendingFlips' = pendingFlips
                    /\ metrics' = metrics
                    /\ tilePositions' = tilePositions]_vars

\* C11 witness: of two updates processed while the account stayed connected, one
\* was of a tile of the account and put a record in the history, and one was
\* of an unowned tile and was admitted
C11_Witness ==
    /\ ~presses.disconnected
    /\ processed = 2
    /\ admitted = 1
    /\ Len(pendingFlips) = 1
    /\ Len(metrics.flipHistory) = 1
    /\ metrics.flipHistory[1].powerup = PowerupMultiplier

-----------------------------------------------------------------------------
(* The decoder on packed values of any length: SpecDecode calls              *)
(* parseTileModel with packed values of 1 to MaxNibbles digits, with and     *)
(* without coordinates in the model, and keeps the arguments and the result  *)
(* of the last call in parsed.                                               *)

DecodeDigits == {"0", "f"}

RECURSIVE HexStrings(_)
HexStrings(n) ==
    IF n = 0 THEN {""}
    ELSE { d \o t : d \in DecodeDigits, t \in HexStrings(n - 1) }

PackedValues ==
    { "0x" \o t : t \in UNION { HexStrings(n) : n \in 1..MaxNibbles } }
    \cup {"0x1", "0x12", "0x123", "0x1a2b3", "0x5e1f1031"}

DecodeEvents ==
    { Event(flipped, 5, 6, 0) : flipped \in PackedValues }
    \cup { Event(flipped, Undefined, Undefined, i) :
              flipped \in PackedValues, i \in {0 - 1, GridWidth + 1} }

InitDecode ==
    /\ Running(<< >>, InitChunkSize)
    /\ metrics = InitMetrics
    /\ appended = << >>
    /\ processed = 0
    /\ now = 0
    /\ entityUpdateRate = << >>
    /\ updateRateInterval = [lastUpdateTimestamp |-> 0, wait |-> RateIntervalMs]
    /\ timing = [uptime |-> 0, ticked |-> 0, ticks |-> 0]

\* const tile = parseTileModel(entity[TILE_MODEL_TAG], hashedKeys)
ParseCall(e) ==
    /\ parsed.calls < MaxCalls
    /\ parsed' = [calls |-> parsed.calls + 1, model |-> e.model,
                  indexOfKey |-> e.indexOfKey,
                  tile |-> parseTileModel(e.model, e.indexOfKey)]
    /\ UNCHANGED << monitor, account, client, isBotRunning, config, pipeline,
                    renderedFlips, drainTimer, subscribing, subscriptions,
                    subscriptionRef, now, nextId, ghosts, presses >>

NextDecode == \E e \in DecodeEvents : ParseCall(e)

SpecDecode == InitDecode /\ [][NextDecode]_vars

\* C14: the packed value "0x0" decodes to the owner "0x0", the powerup None,
\* the powerup value 0 and the team 0 whatever the coordinates, and a call
\* with the arguments of the call before it returns the same tile
C14_SentinelDecodesToUnowned ==
    /\ []((parsed.calls > 0 /\ parsed.model.flipped = "0x0") =>
             /\ parsed.tile.address = Unowned
             /\ parsed.tile.powerup = PowerupNone
             /\ parsed.tile.powerupValue = 0
             /\ parsed.tile.team = 0)
    /\ [][(/\ parsed.calls > 0
           /\ parsed'.model = parsed.model
           /\ parsed'.indexOfKey = parsed.indexOfKey)
          => parsed'.tile = parsed.tile]_vars

\* C14 witness: "0x0" was decoded twice, the second time with the coordinates
\* taken from the key
C14_Witness ==
    /\ parsed.calls = 2
    /\ parsed.model.flipped = "0x0"
    /\ parsed.model.x = Undefined
    /\ parsed.tile.x = 1
    /\ parsed.tile.y = 1

\* the integer a packed value is the hexadecimal numeral of
PackedInteger(flipped) == ParseDigits(Substring(flipped, 2, Len(flipped)), 0)

\* C15: every packed value other than "0x0" decodes to a powerup value of
\* 0..255 that is bits 4 to 11 of the packed integer and to a team of 0..15
\* that is its lowest four bits
C15_ValueAndTeamOfPackedInteger ==
    (parsed.calls > 0 /\ parsed.model.flipped # "0x0") =>
        LET v == PackedInteger(parsed.model.flipped)
        IN  /\ parsed.tile.powerupValue \in 0..255
            /\ parsed.tile.powerupValue = (v \div 16) % 256
            /\ parsed.tile.team \in 0..15
            /\ parsed.tile.team = v % 16

-----------------------------------------------------------------------------
(* The controls with every value of the three sliders: SpecConfig starts     *)
(* with the bot running and moves the sliders.                               *)

InitConfig ==
    /\ Running(<< >>, InitChunkSize)
    /\ metrics = InitMetrics
    /\ appended = << >>
    /\ processed = 0
    /\ now = 0
    /\ entityUpdateRate = << >>
    /\ updateRateInterval = [lastUpdateTimestamp |-> 0, wait |-> RateIntervalMs]
    /\ timing = [uptime |-> 0, ticked |-> 0, ticks |-> 0]

NextConfig ==
    \/ \E size \in SliderChunkSizes : SetChunkSize(size)
    \/ \E delay \in SliderExecutionDelays : SetExecutionDelay(delay)
    \/ \E factor \in SliderSampleFactors : SetSampleFactor(factor)

SpecConfig == InitConfig /\ [][NextConfig]_vars

-----------------------------------------------------------------------------
(* The rate monitor over seconds: SpecRate starts with the bot running and   *)
(* a ring of samples of earlier runs of the interval, lets the clock advance *)
(* in half intervals and be set back, and lets updates arrive.               *)

RateStepMs == RateIntervalMs \div 2
RatePrefills == {0, RateKeep, RateKeep + 1}

\* the samples of h runs of the interval that were 1 to h milliseconds late
RateRing(h) == [i \in 1..h |-> Frac(MsPerSecond, RateIntervalMs + i)]

InitRate ==
    \E h \in RatePrefills :
        /\ Running(<< >>, InitChunkSize)
        /\ metrics = InitMetrics
        /\ appended = << >>
        /\ processed = 0
        /\ now = 0
        /\ entityUpdateRate = RateRing(h)
        /\ updateRateInterval = [lastUpdateTimestamp |-> 0, wait |-> RateIntervalMs]
        /\ timing = [uptime |-> 0, ticked |-> 0, ticks |-> 0]

rateFrame == << parsed, account, client, isBotRunning, config, pendingFlips,
                renderedFlips, drainTimer, chunkTimers, inFlight, subscribing,
                subscriptions, subscriptionRef, metrics, tilePositions, txLogs,
                nextId, ghosts, presses >>

\* half an interval passes
RateClock ==
    /\ timing.uptime < MaxRateSteps * RateStepMs
    /\ now' = now + RateStepMs
    /\ updateRateInterval' = Elapse(updateRateInterval, RateStepMs)
    /\ timing' = [timing EXCEPT !.uptime = @ + RateStepMs]
    /\ UNCHANGED << rateFrame, entityUpdateRate, lastUpdateTimestamp >>

\* the system clock, which Date.now() reads, is set back by a second
ClockBack ==
    /\ now >= RateIntervalMs
    /\ now' = now - RateIntervalMs
    /\ UNCHANGED << rateFrame, monitor, lastUpdateTimestamp >>

\* the callback of setInterval(.., 1000), with the lastUpdateTimestamp of the
\* render that set the interval, and the render that follows it
UpdateRateTick ==
    LET timeDiff == now - updateRateInterval.lastUpdateTimestamp
    IN  /\ updateRateInterval.wait = 0
        /\ entityUpdateRate' =
              IF timeDiff > 0
              THEN PushRate(entityUpdateRate, Frac(MsPerSecond, timeDiff))
              ELSE entityUpdateRate
        /\ lastUpdateTimestamp' = now
        /\ updateRateInterval' =
              IF now = lastUpdateTimestamp
              THEN [updateRateInterval EXCEPT !.wait = RateIntervalMs]
              ELSE RateEffect(now)
        /\ timing' = [timing EXCEPT !.ticked = timing.uptime, !.ticks = @ + 1]
        /\ UNCHANGED << rateFrame, now >>

NextRate ==
    \/ RateClock
    \/ ClockBack
    \/ \E s \in subscriptions : EntityWithoutTile(s)
    \/ UpdateRateTick

SpecRate == InitRate /\ [][NextRate]_vars

\* C19: whatever updates arrive, once a second has passed since the interval
\* ran last (or since the component was mounted) the interval is due to run
C19_TickDueEverySecond ==
    (timing.uptime - timing.ticked >= RateIntervalMs) => updateRateInterval.wait = 0

\* C20: the ring never holds more than 30 samples; a run of the interval with
\* a positive time difference appends its sample at the end and, when the ring
\* held 30, drops the first; a run with a time difference that is not positive,
\* and every step that is not a run of the interval, leave the ring as it was
C20_RingOfThirty ==
    /\ [](Len(entityUpdateRate) <= 30)
    /\ [][UpdateRateTick =>
            LET timeDiff == now - updateRateInterval.lastUpdateTimestamp
                kept == IF Len(entityUpdateRate) = 30 THEN Tail(entityUpdateRate)
                        ELSE entityUpdateRate
            IN  IF timeDiff > 0
                THEN entityUpdateRate' =
                        Append(kept, Frac(MsPerSecond, timeDiff))
                ELSE entityUpdateRate' = entityUpdateRate]_vars
    /\ [][timing'.ticks = timing.ticks => entityUpdateRate' = entityUpdateRate]_vars

\* C20 witness: the interval ran twice on a ring of 30 samples, once with a
\* positive time difference, which dropped the first sample, and once with a
\* time difference that was not positive
C20_Witness ==
    /\ timing.ticks = 2
    /\ Len(entityUpdateRate) = 30
    /\ entityUpdateRate[1] = Frac(MsPerSecond, RateIntervalMs + 2)
    /\ entityUpdateRate[29] = Frac(MsPerSecond, RateIntervalMs + 30)
    /\ entityUpdateRate[30] = Frac(MsPerSecond, RateIntervalMs)

-----------------------------------------------------------------------------
(* The feed with more kinds of updates: SpecFeed starts with the bot running *)
(* and the subscription made, and lets the feed deliver FeedEvents while the *)
(* drain and the executor run.                                               *)

InitFeed ==
    /\ Running(<< >>, InitChunkSize)
    /\ metrics = InitMetrics
    /\ appended = << >>
    /\ processed = 0
    /\ now = 0
    /\ entityUpdateRate = << >>
    /\ updateRateInterval = [lastUpdateTimestamp |-> 0, wait |-> RateIntervalMs]
    /\ timing = [uptime |-> 0, ticked |-> 0, ticks |-> 0]

NextFeed ==
    \/ \E s \in subscriptions : EntityWithoutTile(s)
    \/ \E s \in subscriptions, tile \in FeedTiles, random \in Randoms :
          HandleEntityUpdated(s, tile, random)
    \/ Rerender
    \/ DrainTimerFire
    \/ \E i \in 1..Len(chunkTimers) : ChunkTimerFire(i)
    \/ Tick
    \/ \E call \in inFlight : ExecuteSucceed(call)
    \/ \E call \in inFlight : ExecuteFail(call)

SpecFeed == InitFeed /\ [][NextFeed]_vars

\* the values of the records of kind that updates of the account's tiles appended
RECURSIVE Revealed(_, _)
Revealed(records, kind) ==
    IF Len(records) = 0 THEN << >>
    ELSE (IF Head(records).success /\ Head(records).powerup = kind
          THEN << Head(records).powerupValue >> ELSE << >>)
         \o Revealed(Tail(records), kind)

\* C12: for each powerup kind, count is the number of values and values are
\* the powerupValue of the processed updates of the account's tiles that
\* revealed the kind, in the order they were processed (none for None); a
\* settled executor call and, as long as the account stays connected, an update
\* of a tile that is not the account's and an update of a tile of the account
\* without a powerup leave the statistics alone
C12_PowerupStats ==
    /\ [](\A kind \in Powerups :
             /\ metrics.powerups[kind].count = Len(metrics.powerups[kind].values)
             /\ metrics.powerups[kind].values =
                   IF kind = PowerupNone THEN << >> ELSE Revealed(appended, kind))
    /\ [][completed' # completed => metrics'.powerups = metrics.powerups]_vars
    /\ [][~presses.disconnected =>
            \A tile \in FeedTiles :
               (Processes(tile)
                  /\ (tile.address # account \/ tile.powerup = PowerupNone))
               => metrics'.powerups = metrics.powerups]_vars

\* C12 witness: two updates of the account's tiles revealed multipliers of
\* different values
C12_Witness ==
    /\ metrics.powerups[PowerupMultiplier].count = 2
    /\ metrics.powerups[PowerupMultiplier].values[1]
          # metrics.powerups[PowerupMultiplier].values[2]

\* C13: an update whose packed value has a powerup nibble outside the Powerup
\* enum is dropped: processing it leaves the metrics and the pending queue as
\* they were, and powerups never has an entry for a kind outside the enum
C13_UnknownKindIsDropped ==
    /\ [](DOMAIN metrics.powerups \subseteq Powerups)
    /\ [][\A tile \in FeedTiles :
            (Processes(tile) /\ tile.powerup \notin Powerups)
            => (metrics' = metrics /\ pendingFlips' = pendingFlips)]_vars

-----------------------------------------------------------------------------
(* Executor calls that outlive the stop *)

\* the calls that settle in this step
SettledCalls == IF completed'.calls > completed.calls THEN inFlight \ inFlight' ELSE {}

\* the call was passed to the executor before the other one
SubmittedBefore(c1, c2) ==
    \/ c1.drain < c2.drain
    \/ c1.drain = c2.drain /\ c1.index < c2.index

\* C21: stopping the bot leaves the executor calls in flight, while it is
\* stopped each of them can resolve or throw, whichever other calls are
\* outstanding, and a call that settles then adds its chunk's size to the total and
\* to the success or the failure counter, puts one record per item, stamped
\* with the time of completion, at the end of the history behind the records
\* of the calls that settled before it, and on success folds its response time
\* into the average, appends its coordinates to the flipped view and takes
\* them out of the pending view
C21_InFlightCallsOutliveStop ==
    /\ [](~isBotRunning =>
             \A call \in inFlight :
                ENABLED ExecuteSucceed(call) /\ ENABLED ExecuteFail(call))
    /\ [][(isBotRunning /\ ~isBotRunning') => inFlight' = inFlight]_vars
    /\ [][\A call \in SettledCalls :
            ~isBotRunning =>
              LET n == Len(call.flips)
                  ok == call \in SucceededCalls
                  old == metrics.flipHistory
                  h == metrics'.flipHistory
                  avg == metrics.averageResponseTime
              IN  /\ metrics'.totalFlips = metrics.totalFlips + n
                  /\ metrics'.successfulFlips
                        = metrics.successfulFlips + (IF ok THEN n ELSE 0)
                  /\ metrics'.failedFlips
                        = metrics.failedFlips + (IF ok THEN 0 ELSE n)
                  /\ Len(h) = Min(HistoryCap, Len(old) + n)
                  /\ \A i \in 1..Len(h) :
                        IF i > Len(h) - n
                        THEN h[i].timestamp = now /\ h[i].success = ok
                        ELSE h[i] = old[Len(old) + n - Len(h) + i]
                  /\ ok =>
                        /\ metrics'.averageResponseTime.num * avg.den
                              * (metrics.totalFlips + n)
                           = metrics'.averageResponseTime.den
                              * (avg.num * metrics.totalFlips
                                 + (now - call.startTime) * avg.den)
                        /\ tilePositions'.flipped = tilePositions.flipped
                              \o [i \in 1..n |-> Coord(call.flips[i])]
                        /\ \A i \in 1..n, j \in 1..Len(tilePositions'.pending) :
                              tilePositions'.pending[j] # Coord(call.flips[i])]_vars

\* C21 witness: two calls were in flight when the bot was stopped, and the one
\* passed to the executor last has resolved since: its record is the history,
\* its coordinates are the flipped view and its response time is the average,
\* while the call passed first is still outstanding
C21_Witness ==
    /\ ~isBotRunning
    /\ Cardinality(presses.stopped) = 2
    /\ completed.calls = 1
    /\ \E c1 \in inFlight, c2 \in presses.stopped \ inFlight :
          /\ c1 \in presses.stopped
          /\ SubmittedBefore(c1, c2)
          /\ metrics.successfulFlips = Len(c2.flips)
          /\ Len(metrics.flipHistory) = Len(c2.flips)
          /\ metrics.flipHistory[1].success
          /\ metrics.flipHistory[1].timestamp > c2.startTime
          /\ metrics.averageResponseTime.num > 0
          /\ tilePositions.flipped = [i \in 1..Len(c2.flips) |-> Coord(c2.flips[i])]

=============================================================================
